---------------------------- MODULE Spec2Model ----------------------------
(***************************************************************************)
(* Model of three nixpacks providers: NpmProvider (src/providers/npm.rs),  *)
(* DenoProvider (src/providers/deno.rs), PixiProvider                      *)
(* (src/providers/pixi.rs).                                                *)
(*                                                                         *)
(* A string the code inspects character by character (the engines.node     *)
(* constraint) is a sequence of one-character strings.  A u32 is carried   *)
(* as its decimal rendering (a digit sequence without leading zeros), so   *)
(* that the whole range 0 .. 4294967295 is representable.  Result<T> is    *)
(* Ok(v) / Err(e), Option<T> is Some(v) / None.                            *)
(***************************************************************************)
EXTENDS Integers, Sequences, FiniteSets, TLC

VARIABLES
    app,        \* the source tree handed to the providers (&App)
    env,        \* the configuration (&Environment)
    ret,        \* the last provider call: <<operation, what it returned>>
    reads,      \* accessor calls issued by the last call when it was a detect
    twice       \* TRUE when the last call repeated the call before it

vars == <<app, env, ret, reads, twice>>

\* the operation called last and what it returned
Called == ret[1]

Returned == ret[2]

\* ------------------------------------------------------------------------
\* Result and Option values

Ok(v) == [tag |-> "Ok", val |-> v]

Err(e) == [tag |-> "Err", err |-> e]

\* an error value: its message and what the message is about (the parts of
\* a file name, the digits of a version), both part of the rendered text
Error(msg, subject) == [msg |-> msg, subject |-> subject]

IsOk(r) == r.tag = "Ok"

IsErr(r) == r.tag = "Err"

Some(v) == [some |-> TRUE, val |-> v]

None == [some |-> FALSE]

IsSome(o) == o.some

\* ------------------------------------------------------------------------
\* Bounds of the explored inputs

\* longest digit run enumerated after the optional long prefix
MaxDigits == 2

\* most source files of an explored Deno tree
MaxFiles == 2

\* ------------------------------------------------------------------------
\* Characters and text

AsciiDigits == {"0", "1", "2", "3", "4", "5", "6", "7", "8", "9"}

\* a decimal digit outside ASCII (ARABIC-INDIC DIGIT FIVE), one character
ArabicFive == "U+0665"

\* the class \d of the regex crate: Unicode decimal digits (Nd)
IsDigitChar(c) == c \in AsciiDigits \cup {ArabicFive}

\* length of the longest run of \d characters of s starting at index i
RECURSIVE DigitRun(_, _)
DigitRun(s, i) ==
    IF i <= Len(s) /\ IsDigitChar(s[i]) THEN 1 + DigitRun(s, i + 1) ELSE 0

StartsWith(s, p) == Len(s) >= Len(p) /\ SubSeq(s, 1, Len(p)) = p

\* strip leading "0" characters, keeping at least one character
RECURSIVE StripZeros(_)
StripZeros(d) ==
    IF Len(d) > 1 /\ d[1] = "0" THEN StripZeros(Tail(d)) ELSE d

DigitVal(c) ==
    CASE c = "0" -> 0 [] c = "1" -> 1 [] c = "2" -> 2 [] c = "3" -> 3
      [] c = "4" -> 4 [] c = "5" -> 5 [] c = "6" -> 6 [] c = "7" -> 7
      [] c = "8" -> 8 [] c = "9" -> 9

\* a < b for two digit sequences of the same length (numeric order)
RECURSIVE DigitsLess(_, _)
DigitsLess(a, b) ==
    IF a = <<>> THEN FALSE
    ELSE IF DigitVal(a[1]) # DigitVal(b[1]) THEN DigitVal(a[1]) < DigitVal(b[1])
    ELSE DigitsLess(Tail(a), Tail(b))

\* u32::MAX, in decimal
U32Max == <<"4", "2", "9", "4", "9", "6", "7", "2", "9", "5">>

\* str::parse::<u32>: ASCII digits only, at least one, value <= u32::MAX
ParseU32(d) ==
    IF d = <<>> \/ \E i \in 1..Len(d) : d[i] \notin AsciiDigits
    THEN Err(Error("ParseIntError", d))
    ELSE LET n == StripZeros(d) IN
         IF Len(n) > Len(U32Max) \/ (Len(n) = Len(U32Max) /\ DigitsLess(U32Max, n))
         THEN Err(Error("ParseIntError", d))
         ELSE Ok(n)

\* ------------------------------------------------------------------------
\* npm.rs: Node version resolution

AVAILABLE_NODE_VERSIONS ==
    {<<"1", "0">>, <<"1", "2">>, <<"1", "4">>, <<"1", "6">>, <<"1", "7">>}

DEFAULT_NODE_PKG_NAME == <<"pkgs.nodejs">>

\* Pkg::new
Pkg(name) == [name |-> name]

\* MajorRegex with the pattern r"^(\d+)$": the optional ".x" tail forgotten
MajorRegexNoTail(s) ==
    LET n == DigitRun(s, 1) IN
    IF n >= 1 /\ n = Len(s) THEN Some(SubSeq(s, 1, n)) ELSE None

\* the outcome of Regex::captures_iter(..).get(0) for r"^(\d+)\.?x?$":
\* Some(capture group 1) or None
MajorRegex(s) ==
    LET n == DigitRun(s, 1) IN
    IF n >= 1 /\ SubSeq(s, n + 1, Len(s)) \in {<<>>, <<".">>, <<"x">>, <<".", "x">>}
    THEN Some(SubSeq(s, 1, n))
    ELSE None

\* the same for r"^>=(\d+)"
RangeRegex(s) ==
    LET n == DigitRun(s, 3) IN
    IF StartsWith(s, <<">", "=">>) /\ n >= 1
    THEN Some(SubSeq(s, 3, 2 + n))
    ELSE None

version_number_to_pkg(version) ==
    IF version \in AVAILABLE_NODE_VERSIONS
    THEN Ok(Some(<<"nodejs-">> \o version \o <<"_x">>))
    ELSE Err(Error("Node version {} is not available", version))

\* m is the first match of the regex on node_version (Some(group 1)) or None
parse_regex_into_pkg(m) ==
    IF IsSome(m) /\ IsOk(ParseU32(m.val))
    THEN version_number_to_pkg(ParseU32(m.val).val)
    ELSE Ok(None)

\* package_json is a parsed PackageJson
get_nix_node_pkg(package_json) ==
    LET node_version ==
            IF IsSome(package_json.engines) /\ "node" \in DOMAIN package_json.engines.val
            THEN Some(package_json.engines.val["node"])
            ELSE None
        first == parse_regex_into_pkg(MajorRegex(node_version.val))
        second == parse_regex_into_pkg(RangeRegex(node_version.val))
    IN
    IF ~IsSome(node_version) THEN Ok(Pkg(DEFAULT_NODE_PKG_NAME))
    ELSE IF node_version.val = <<"*">> THEN Ok(Pkg(DEFAULT_NODE_PKG_NAME))
    ELSE IF IsErr(first) THEN first
    ELSE IF IsSome(first.val) THEN Ok(Pkg(first.val.val))
    ELSE IF IsErr(second) THEN second
    ELSE IF IsSome(second.val) THEN Ok(Pkg(second.val.val))
    ELSE Ok(Pkg(DEFAULT_NODE_PKG_NAME))

\* ------------------------------------------------------------------------
\* Paths.  A path is [dir |-> sequence of directory names, stem, ext]; the
\* file name is stem.ext.

Path(dir, stem, ext) == [dir |-> dir, stem |-> stem, ext |-> ext]

\* a directory name that is not valid UTF-8
NonUtf8Dir == "caf<E9>"

\* the directory the App was opened on
SourceDir == <<"", "app">>

RECURSIVE JoinSlash(_)
JoinSlash(names) ==
    IF Len(names) = 1 THEN names[1]
    ELSE names[1] \o "/" \o JoinSlash(Tail(names))

\* PathBufExt::to_slash: the components joined by "/", None when the path
\* is not valid UTF-8
to_slash(p) ==
    IF \E i \in 1..Len(p.dir) : p.dir[i] = NonUtf8Dir
    THEN None
    ELSE Some(JoinSlash(p.dir \o <<p.stem \o "." \o p.ext>>))

\* ------------------------------------------------------------------------
\* The source accessor (App).  a.files maps each path of the tree, relative
\* to the source directory, to its content; a.order is the order in which a
\* glob walk yields the paths.
\* A content is [kind |-> "json" | "toml", doc |-> ...], [kind |-> "text",
\* lines |-> ...], or [kind |-> "garbage"] (neither parseable nor UTF-8).

Json(doc) == [kind |-> "json", doc |-> doc]

Toml(doc) == [kind |-> "toml", doc |-> doc]

Text(lines) == [kind |-> "text", lines |-> lines]

Garbage == [kind |-> "garbage"]

\* the components of a path, the last being the file name
FileName(p) == p.dir \o <<p.stem \o "." \o p.ext>>

\* App::includes_file
includes_file(a, p) == p \in DOMAIN a.files

\* serde: deserialize a document as the named type.  PackageJson requires
\* name, PixiToml requires tasks, DenoJson requires nothing; the other
\* fields are Options.
Deserialize(type, doc) ==
    CASE type = "PackageJson" ->
            IF IsSome(doc.name)
            THEN Ok([name |-> doc.name.val, scripts |-> doc.scripts,
                     engines |-> doc.engines, main |-> doc.main])
            ELSE Err("missing field name")
      [] type = "PixiToml" ->
            IF IsSome(doc.tasks)
            THEN Ok([tasks |-> doc.tasks.val])
            ELSE Err("missing field tasks")
      [] type = "DenoJson" -> Ok([tasks |-> doc.tasks])

\* App::read_json / App::read_toml: the error names the file it is about
ReadManifest(a, p, kind, type) ==
    IF ~includes_file(a, p) THEN Err(Error("not found", FileName(p)))
    ELSE IF a.files[p].kind # kind THEN Err(Error("syntax", FileName(p)))
    ELSE LET d == Deserialize(type, a.files[p].doc) IN
         IF IsErr(d) THEN Err(Error(d.err, FileName(p))) ELSE d

read_json(a, p, type) == ReadManifest(a, p, "json", type)

read_toml(a, p, type) == ReadManifest(a, p, "toml", type)

\* App::find_files for the glob patterns the providers use: the matching
\* paths in walk order, made absolute
GlobMatches(pattern, p) ==
    CASE pattern = "**/*.{ts,tsx,js,jsx}" -> p.ext \in {"ts", "tsx", "js", "jsx"}
      [] pattern = "**/index.{ts,tsx,js,jsx}" ->
            p.stem = "index" /\ p.ext \in {"ts", "tsx", "js", "jsx"}
      [] pattern = "pixi.toml" -> p = Path(<<>>, "pixi", "toml")

Absolute(p) == [p EXCEPT !.dir = SourceDir \o p.dir]

find_files(a, pattern) ==
    LET Hit(p) == GlobMatches(pattern, p)
        hits == SelectSeq(a.order, Hit)
    IN Ok([i \in 1..Len(hits) |-> Absolute(hits[i])])

\* App::strip_source_path
strip_source_path(a, p) ==
    IF StartsWith(p.dir, SourceDir)
    THEN Ok([p EXCEPT !.dir = SubSeq(p.dir, Len(SourceDir) + 1, Len(p.dir))])
    ELSE Err(Error("prefix not found", FileName(p)))

\* App::has_match
has_match(a, pattern) ==
    LET found == find_files(a, pattern) IN IsOk(found) /\ found.val # <<>>

\* a line of source text; the first is an import the Deno detector looks for
DenoImportLine == "import { serve } from 'https://deno.land/std/http/server.ts';"

NpmImportLine == "import express from 'express';"

\* Regex::find for the pattern of DenoProvider::detect on the text of a file
DenoImportRegex(lines) == \E i \in 1..Len(lines) : lines[i] = DenoImportLine

\* App::find_match: the matched files are read in walk order until one
\* matches; a file that cannot be read as text fails the scan
RECURSIVE ScanFiles(_, _)
ScanFiles(a, paths) ==
    IF paths = <<>> THEN Ok(FALSE)
    ELSE LET c == a.files[strip_source_path(a, paths[1]).val] IN
         IF c.kind # "text" THEN Err(Error("unreadable", FileName(paths[1])))
         ELSE IF DenoImportRegex(c.lines) THEN Ok(TRUE)
         ELSE ScanFiles(a, Tail(paths))

find_match(a, pattern) ==
    LET found == find_files(a, pattern) IN
    IF IsErr(found) THEN Ok(FALSE) ELSE ScanFiles(a, found.val)

\* ------------------------------------------------------------------------
\* The configuration accessor (Environment): a function from variable
\* names to values.

\* Environment::is_config_variable_truthy
is_config_variable_truthy(e, name) ==
    LET key == "NIXPACKS_" \o name IN
    key \in DOMAIN e /\ e[key] \in {"1", "true"}

\* ------------------------------------------------------------------------
\* Phases and build plans

PhaseNew(name) ==
    [name |-> name, nix_pkgs |-> None, cmds |-> None, depends_on |-> None,
     only_include_files |-> None, nixpkgs_archive |-> None]

\* Phase::setup
PhaseSetup(pkgs) == [PhaseNew("setup") EXCEPT !.nix_pkgs = pkgs]

\* Phase::install
PhaseInstall(cmd) ==
    [PhaseNew("install") EXCEPT !.cmds = Some(<<cmd>>), !.depends_on = Some(<<"setup">>)]

\* Phase::build
PhaseBuild(cmd) ==
    [PhaseNew("build") EXCEPT !.cmds = Some(<<cmd>>), !.depends_on = Some(<<"install">>)]

\* Phase::add_cmd
add_cmd(phase, cmd) ==
    [phase EXCEPT !.cmds = Some((IF IsSome(@) THEN @.val ELSE <<>>) \o <<cmd>>)]

\* Phase::depends_on_phase
depends_on_phase(phase, name) ==
    [phase EXCEPT !.depends_on = Some((IF IsSome(@) THEN @.val ELSE <<>>) \o <<name>>)]

\* Phase::pin
pin(phase, archive) == [phase EXCEPT !.nixpkgs_archive = archive]

\* StartPhase::new
StartPhaseNew(cmd) == [cmd |-> Some(cmd)]

\* BuildPlan::default; start_writes counts the calls of set_start_phase
BuildPlanDefault == [phases |-> <<>>, start_phase |-> None, start_writes |-> 0]

\* BuildPlan::add_phase
add_phase(plan, phase) ==
    [plan EXCEPT !.phases = [n \in DOMAIN @ \cup {phase.name} |->
                                IF n = phase.name THEN phase ELSE @[n]]]

\* BuildPlan::set_start_phase
set_start_phase(plan, start) ==
    [plan EXCEPT !.start_phase = Some(start), !.start_writes = @ + 1]

\* the archive pinned for Deno 2
NIXPACKS_ARCHIVE_LATEST_DENO == "NIXPACKS_ARCHIVE_LATEST_DENO"

\* ------------------------------------------------------------------------
\* npm.rs: NpmProvider

PackageJsonPath == Path(<<>>, "package", "json")

\* Path::join of the source directory and a file name of package.json
PathOf(name) ==
    CASE name = "index.js" -> Path(<<>>, "index", "js")
      [] name = "server.js" -> Path(<<>>, "server", "js")
      [] name = "lib/main.js" -> Path(<<"lib">>, "main", "js")

NpmDetect(a, e) ==
    [val |-> Ok(includes_file(a, PackageJsonPath)),
     reads |-> <<"includes_file package.json">>]

NixConfigNew(pkgs) == [pkgs |-> pkgs]

NpmPkgs(a, e) ==
    LET package_json == read_json(a, PackageJsonPath, "PackageJson")
        node_pkg == get_nix_node_pkg(package_json.val)
    IN
    IF IsErr(package_json) THEN package_json
    ELSE IF IsErr(node_pkg) THEN node_pkg
    ELSE Ok(NixConfigNew(<<Pkg(<<"pkgs.stdenv">>), node_pkg.val>>))

NpmSuggestedBuildCmd(a, e) ==
    LET package_json == read_json(a, PackageJsonPath, "PackageJson") IN
    IF IsErr(package_json) THEN package_json
    ELSE IF IsSome(package_json.val.scripts)
            /\ "build" \in DOMAIN package_json.val.scripts.val
    THEN Ok(Some("npm run build"))
    ELSE Ok(None)

\* NpmSuggestedStartCommand without the check that the main file exists
NpmSuggestedStartCommandUnchecked(a, e) ==
    LET package_json == read_json(a, PackageJsonPath, "PackageJson") IN
    IF IsErr(package_json) THEN package_json
    ELSE IF IsSome(package_json.val.scripts)
            /\ "start" \in DOMAIN package_json.val.scripts.val
    THEN Ok(Some("npm run start"))
    ELSE IF IsSome(package_json.val.main)
    THEN Ok(Some("node " \o package_json.val.main.val))
    ELSE IF includes_file(a, PathOf("index.js"))
    THEN Ok(Some("node index.js"))
    ELSE Ok(None)

NpmSuggestedStartCommand(a, e) ==
    LET package_json == read_json(a, PackageJsonPath, "PackageJson") IN
    IF IsErr(package_json) THEN package_json
    ELSE IF IsSome(package_json.val.scripts)
            /\ "start" \in DOMAIN package_json.val.scripts.val
    THEN Ok(Some("npm run start"))
    ELSE IF IsSome(package_json.val.main)
            /\ includes_file(a, PathOf(package_json.val.main.val))
    THEN Ok(Some("node " \o package_json.val.main.val))
    ELSE IF includes_file(a, PathOf("index.js"))
    THEN Ok(Some("node index.js"))
    ELSE Ok(None)

\* ------------------------------------------------------------------------
\* pixi.rs: PixiProvider

PixiTomlPath == Path(<<>>, "pixi", "toml")

PixiDetect(a, e) ==
    [val |-> Ok(has_match(a, "pixi.toml")), reads |-> <<"has_match pixi.toml">>]

\* PixiGetBuildPlan with a missing start task tolerated: the plan is
\* returned without a start phase
PixiGetBuildPlanLenient(a, e) ==
    LET config == read_toml(a, PixiTomlPath, "PixiToml")
        setup == add_cmd([PhaseNew("setup") EXCEPT !.only_include_files = Some(<<>>)],
                         "curl -fsSL https://pixi.sh/install.sh | bash")
        install == [PhaseInstall("~/.pixi/bin/pixi install") EXCEPT
                        !.only_include_files = Some(<<"pixi.toml", "pixi.lock">>)]
        plan1 == add_phase(add_phase(BuildPlanDefault, setup), install)
        plan2 == IF IsSome(config.val.tasks.build)
                 THEN add_phase(plan1, PhaseBuild("~/.pixi/bin/pixi run build"))
                 ELSE plan1
    IN
    IF IsErr(config) THEN config
    ELSE IF IsSome(config.val.tasks.start)
    THEN Ok(Some(set_start_phase(plan2, StartPhaseNew("~/.pixi/bin/pixi run start"))))
    ELSE Ok(Some(plan2))

PixiGetBuildPlan(a, e) ==
    LET config == read_toml(a, PixiTomlPath, "PixiToml")
        setup == add_cmd([PhaseNew("setup") EXCEPT !.only_include_files = Some(<<>>)],
                         "curl -fsSL https://pixi.sh/install.sh | bash")
        install == [PhaseInstall("~/.pixi/bin/pixi install") EXCEPT
                        !.only_include_files = Some(<<"pixi.toml", "pixi.lock">>)]
        plan1 == add_phase(add_phase(BuildPlanDefault, setup), install)
        plan2 == IF IsSome(config.val.tasks.build)
                 THEN add_phase(plan1, PhaseBuild("~/.pixi/bin/pixi run build"))
                 ELSE plan1
    IN
    IF IsErr(config) THEN config
    ELSE IF IsSome(config.val.tasks.start)
    THEN Ok(Some(set_start_phase(plan2, StartPhaseNew("~/.pixi/bin/pixi run start"))))
    ELSE Err(Error("No start task provided; please add one to your pixi.toml.", <<>>))

\* ------------------------------------------------------------------------
\* deno.rs: DenoProvider

DenoJsonPath == Path(<<>>, "deno", "json")

DenoJsoncPath == Path(<<>>, "deno", "jsonc")

\* DenoDetect with the content scan forgotten
DenoDetectManifestsOnly(a, e) ==
    LET c1 == "includes_file deno.json"
        c2 == "includes_file deno.jsonc"
    IN
    IF includes_file(a, DenoJsonPath) THEN [val |-> Ok(TRUE), reads |-> <<c1>>]
    ELSE [val |-> Ok(includes_file(a, DenoJsoncPath)), reads |-> <<c1, c2>>]

\* DenoDetect with the content scan run before the file checks
DenoDetectScanFirst(a, e) ==
    LET c1 == "includes_file deno.json"
        c2 == "includes_file deno.jsonc"
        c3 == "find_match **/*.{ts,tsx,js,jsx}"
        scan == find_match(a, "**/*.{ts,tsx,js,jsx}")
    IN
    IF IsErr(scan) THEN [val |-> scan, reads |-> <<c3>>]
    ELSE IF includes_file(a, DenoJsonPath) THEN [val |-> Ok(TRUE), reads |-> <<c3, c1>>]
    ELSE IF includes_file(a, DenoJsoncPath)
    THEN [val |-> Ok(TRUE), reads |-> <<c3, c1, c2>>]
    ELSE [val |-> scan, reads |-> <<c3, c1, c2>>]

DenoDetect(a, e) ==
    LET c1 == "includes_file deno.json"
        c2 == "includes_file deno.jsonc"
        c3 == "find_match **/*.{ts,tsx,js,jsx}"
        scan == find_match(a, "**/*.{ts,tsx,js,jsx}")
    IN
    IF includes_file(a, DenoJsonPath) THEN [val |-> Ok(TRUE), reads |-> <<c1>>]
    ELSE IF includes_file(a, DenoJsoncPath) THEN [val |-> Ok(TRUE), reads |-> <<c1, c2>>]
    ELSE [val |-> scan, reads |-> <<c1, c2, c3>>]

get_start_file(a) ==
    LET matches == find_files(a, "**/index.{ts,tsx,js,jsx}")
        relative_path_to_index == strip_source_path(a, matches.val[1])
    IN
    IF IsErr(matches) THEN matches
    ELSE IF matches.val = <<>> THEN Ok(None)
    ELSE IF IsErr(relative_path_to_index) THEN relative_path_to_index
    ELSE Ok(Some(relative_path_to_index.val))

\* the command prefix followed by the slash form of the start file
StartFileCmd(a, prefix) ==
    LET start_file == get_start_file(a) IN
    IF IsErr(start_file) THEN start_file
    ELSE IF ~IsSome(start_file.val) THEN Ok(None)
    ELSE IF ~IsSome(to_slash(start_file.val.val))
    THEN Err(Error("Failed to convert start_file to slash_path", <<>>))
    ELSE Ok(Some(prefix \o to_slash(start_file.val.val).val))

get_build_cmd(a) == StartFileCmd(a, "deno cache ")

\* get_start_cmd reading deno.jsonc before deno.json
get_start_cmd_jsonc_first(a) ==
    LET first == read_json(a, DenoJsoncPath, "DenoJson")
        deno_json == IF IsOk(first) THEN first
                     ELSE read_json(a, DenoJsonPath, "DenoJson")
    IN
    IF includes_file(a, DenoJsonPath) \/ includes_file(a, DenoJsoncPath)
    THEN IF IsErr(deno_json) THEN deno_json
         ELSE IF IsSome(deno_json.val.tasks) /\ IsSome(deno_json.val.tasks.val.start)
         THEN Ok(Some(deno_json.val.tasks.val.start.val))
         ELSE StartFileCmd(a, "deno run --allow-all ")
    ELSE StartFileCmd(a, "deno run --allow-all ")

get_start_cmd(a) ==
    LET first == read_json(a, DenoJsonPath, "DenoJson")
        deno_json == IF IsOk(first) THEN first
                     ELSE read_json(a, DenoJsoncPath, "DenoJson")
    IN
    IF includes_file(a, DenoJsonPath) \/ includes_file(a, DenoJsoncPath)
    THEN IF IsErr(deno_json) THEN deno_json
         ELSE IF IsSome(deno_json.val.tasks) /\ IsSome(deno_json.val.tasks.val.start)
         THEN Ok(Some(deno_json.val.tasks.val.start.val))
         ELSE StartFileCmd(a, "deno run --allow-all ")
    ELSE StartFileCmd(a, "deno run --allow-all ")

\* DenoGetBuildPlan with the archive pinned on the build phase as well
DenoGetBuildPlanPinsBuild(a, e) ==
    LET setup0 == PhaseSetup(Some(<<Pkg(<<"deno">>)>>))
        truthy == is_config_variable_truthy(e, "USE_DENO_2")
        setup == IF truthy THEN pin(setup0, Some(NIXPACKS_ARCHIVE_LATEST_DENO)) ELSE setup0
        plan1 == add_phase(BuildPlanDefault, setup)
        build_cmd == get_build_cmd(a)
        build0 == depends_on_phase(PhaseBuild(build_cmd.val.val), "setup")
        build == IF truthy THEN pin(build0, Some(NIXPACKS_ARCHIVE_LATEST_DENO)) ELSE build0
        plan2 == IF IsSome(build_cmd.val) THEN add_phase(plan1, build) ELSE plan1
        start_cmd == get_start_cmd(a)
        plan3 == IF IsSome(start_cmd.val)
                 THEN set_start_phase(plan2, StartPhaseNew(start_cmd.val.val))
                 ELSE plan2
    IN
    IF IsErr(build_cmd) THEN build_cmd
    ELSE IF IsErr(start_cmd) THEN start_cmd
    ELSE Ok(Some(plan3))

DenoGetBuildPlan(a, e) ==
    LET setup0 == PhaseSetup(Some(<<Pkg(<<"deno">>)>>))
        setup == IF is_config_variable_truthy(e, "USE_DENO_2")
                 THEN pin(setup0, Some(NIXPACKS_ARCHIVE_LATEST_DENO))
                 ELSE setup0
        plan1 == add_phase(BuildPlanDefault, setup)
        build_cmd == get_build_cmd(a)
        plan2 == IF IsSome(build_cmd.val)
                 THEN add_phase(plan1,
                        depends_on_phase(PhaseBuild(build_cmd.val.val), "setup"))
                 ELSE plan1
        start_cmd == get_start_cmd(a)
        plan3 == IF IsSome(start_cmd.val)
                 THEN set_start_phase(plan2, StartPhaseNew(start_cmd.val.val))
                 ELSE plan2
    IN
    IF IsErr(build_cmd) THEN build_cmd
    ELSE IF IsErr(start_cmd) THEN start_cmd
    ELSE Ok(Some(plan3))

\* ------------------------------------------------------------------------
\* The explored inputs

\* the sequences over S of at most n elements
SeqsUpTo(S, n) == UNION {[1..k -> S] : k \in 0..n}

\* those without a repeated element
Arrangements(S, n) ==
    {q \in SeqsUpTo(S, n) : \A i, j \in 1..Len(q) : q[i] = q[j] => i = j}

File(path, content) == [path |-> path, content |-> content]

\* the App of a tree whose walk yields the given files in the given order
MkApp(entries) ==
    [files |-> [p \in {entries[i].path : i \in 1..Len(entries)} |->
                  (CHOOSE i \in 1..Len(entries) : entries[i].path = p) ] ,
     order |-> [i \in 1..Len(entries) |-> entries[i].path]]

\* MkApp with each path mapped to its content
AppOf(entries) ==
    LET a == MkApp(entries) IN
    [a EXCEPT !.files = [p \in DOMAIN @ |-> entries[@[p]].content]]

NoEnv == <<>>

\* engines.node constraints: prefix, optional long digit prefix, digits, suffix
DigitAlphabet == {"0", "1", "2", "4", "5", "6", "7", ArabicFive}

LongDigits == <<"4", "2", "9", "4", "9", "6", "7", "2", "9">>

ConstraintPrefixes == {<<>>, <<">", "=">>, <<">">>}

ConstraintSuffixes ==
    {<<>>, <<".">>, <<"x">>, <<".", "x">>, <<"x", "x">>,
     <<".", "1", "0", ".", "3", " ", "<", "1", "6">>}

NodeConstraints ==
    {<<"*">>} \cup
    {p \o l \o d \o x : p \in ConstraintPrefixes, l \in {<<>>, LongDigits},
                        d \in SeqsUpTo(DigitAlphabet, MaxDigits),
                        x \in ConstraintSuffixes}

PackageDoc(name, scripts, engines, main) ==
    [name |-> name, scripts |-> scripts, engines |-> engines, main |-> main]

ScriptsOf(keys) == [k \in keys |-> "node ."]

PlainJs(stem) == File(Path(<<>>, stem, "js"), Text(<<NpmImportLine>>))

\* trees that hold a package.json with an engines field
EngineScenarios ==
    {[app |-> AppOf(<<File(PackageJsonPath,
                           Json(PackageDoc(Some("app"), None, engines, None)))>>),
      env |-> NoEnv] :
        engines \in {None, Some(<<>>)} \cup
                    {Some([k \in {"node"} |-> c]) : c \in NodeConstraints}}

\* trees around package.json's scripts and main
PackageContents ==
    {Garbage, Json(PackageDoc(None, None, None, None))} \cup
    {Json(PackageDoc(Some("app"), scripts, None, main)) :
        scripts \in {None} \cup {Some(ScriptsOf(k)) : k \in SUBSET {"start", "build"}},
        main \in {None, Some("server.js"), Some("index.js"), Some("lib/main.js")}}

NpmScenarios ==
    {[app |-> AppOf(m \o q), env |-> NoEnv] :
        m \in {<<>>} \cup {<<File(PackageJsonPath, c)>> : c \in PackageContents},
        q \in Arrangements({PlainJs("index"), PlainJs("server")}, 2)}

\* trees around pixi.toml
PixiContents ==
    {Garbage, Toml([tasks |-> None])} \cup
    {Toml([tasks |-> Some([build |-> b, start |-> t])]) :
        b \in {None, Some("make"), Some("cargo build")},
        t \in {None, Some("python main.py"), Some("./run")}}

PixiScenarios ==
    {[app |-> AppOf(m \o q), env |-> NoEnv] :
        m \in {<<>>} \cup {<<File(PixiTomlPath, c)>> : c \in PixiContents},
        q \in {<<>>, <<File(Path(<<>>, "pixi", "lock"), Garbage)>>}}

\* trees around deno.json, deno.jsonc and the source files
DenoContents ==
    {Garbage, Json([tasks |-> None]), Json([tasks |-> Some([start |-> None])])} \cup
    {Json([tasks |-> Some([start |-> Some(c)])]) :
        c \in {"deno run -A main.ts", "deno task serve"}}

DenoSources ==
    {File(Path(<<>>, "index", "ts"), Text(<<NpmImportLine>>)),
     File(Path(<<"src">>, "index", "js"), Text(<<DenoImportLine>>)),
     File(Path(<<>>, "main", "ts"), Text(<<NpmImportLine, DenoImportLine>>)),
     File(Path(<<NonUtf8Dir>>, "index", "tsx"), Garbage)}

DenoManifests(path) == {<<>>} \cup {<<File(path, x)>> : x \in DenoContents}

DenoEnvs ==
    {NoEnv} \cup {[k \in {"NIXPACKS_USE_DENO_2"} |-> v] : v \in {"1", "true", "0", "false"}}

\* every pair of manifests with up to MaxFiles source files, no configuration
DenoTreeScenarios ==
    {[app |-> AppOf(j \o c \o q), env |-> NoEnv] :
        j \in DenoManifests(DenoJsonPath), c \in DenoManifests(DenoJsoncPath),
        q \in Arrangements(DenoSources, MaxFiles)}

\* every configuration with a deno.json and up to one source file
DenoEnvScenarios ==
    {[app |-> AppOf(j \o q), env |-> e] :
        j \in DenoManifests(DenoJsonPath), q \in Arrangements(DenoSources, 1),
        e \in DenoEnvs}

DenoScenarios == DenoTreeScenarios \cup DenoEnvScenarios

Scenarios == EngineScenarios \cup NpmScenarios \cup PixiScenarios \cup DenoScenarios

\* ------------------------------------------------------------------------
\* The state machine: a caller invokes provider operations on a fixed tree
\* and configuration, in any order

Init ==
    /\ \E sc \in Scenarios : app = sc.app /\ env = sc.env
    /\ ret = <<"none", None>>
    /\ reads = <<>>
    /\ twice = FALSE

\* a call of an operation that takes &App and &Environment and returns val
Return(op, val, log) ==
    /\ ret' = <<op, val>>
    /\ reads' = log
    /\ twice' = (Called = op)
    /\ UNCHANGED <<app, env>>

\* a detect that answers FALSE once it has just answered
DetectCallOnce(op, d) ==
    Return(op, IF Called = op THEN Ok(FALSE) ELSE d.val, d.reads)

\* a call of a provider's detect
DetectCall(op, d) == Return(op, d.val, d.reads)

CallNpmDetect == DetectCall("npm.detect", NpmDetect(app, env))

CallPixiDetect == DetectCall("pixi.detect", PixiDetect(app, env))

CallDenoDetect == DetectCall("deno.detect", DenoDetect(app, env))

CallNpmPkgs == Return("npm.pkgs", NpmPkgs(app, env), <<>>)

CallNpmSuggestedBuildCmd ==
    Return("npm.suggested_build_cmd", NpmSuggestedBuildCmd(app, env), <<>>)

CallNpmSuggestedStartCommand ==
    Return("npm.suggested_start_command", NpmSuggestedStartCommand(app, env), <<>>)

\* get_nix_node_pkg called on the parsed package.json, as NpmProvider::pkgs
\* and the unit tests do
CallGetNixNodePkg ==
    /\ IsOk(read_json(app, PackageJsonPath, "PackageJson"))
    /\ Return("npm.get_nix_node_pkg",
              get_nix_node_pkg(read_json(app, PackageJsonPath, "PackageJson").val), <<>>)

CallPixiGetBuildPlan == Return("pixi.get_build_plan", PixiGetBuildPlan(app, env), <<>>)

CallDenoGetBuildPlan == Return("deno.get_build_plan", DenoGetBuildPlan(app, env), <<>>)

Next ==
    \/ CallNpmDetect
    \/ CallPixiDetect
    \/ CallDenoDetect
    \/ CallNpmPkgs
    \/ CallNpmSuggestedBuildCmd
    \/ CallNpmSuggestedStartCommand
    \/ CallGetNixNodePkg
    \/ CallPixiGetBuildPlan
    \/ CallDenoGetBuildPlan

Spec == Init /\ [][Next]_vars

\* ------------------------------------------------------------------------
\* What the properties read from the state

\* the document of a manifest of the tree, None when absent or malformed
DocOf(p) ==
    IF p \in DOMAIN app.files /\ app.files[p].kind \in {"json", "toml"}
    THEN Some(app.files[p].doc)
    ELSE None

\* package.json is there and deserializes
PackageParsed == IsSome(DocOf(PackageJsonPath)) /\ IsSome(DocOf(PackageJsonPath).val.name)

\* engines.node of package.json, None when unset
EnginesNode ==
    LET engines == DocOf(PackageJsonPath).val.engines IN
    IF IsSome(engines) /\ "node" \in DOMAIN engines.val
    THEN Some(engines.val["node"])
    ELSE None

\* the supported majors, as the specification lists them
SupportedMajors ==
    {<<"1", "0">>, <<"1", "2">>, <<"1", "4">>, <<"1", "6">>, <<"1", "7">>}

\* c is ">=" followed by the integer n and then by something that is not a digit
RangeFrom(c, n) ==
    /\ StartsWith(c, <<">", "=">> \o n)
    /\ Len(c) > Len(n) + 2 => ~IsDigitChar(c[Len(n) + 3])

NodePkg(n) == Ok(Pkg(<<"nodejs-">> \o n \o <<"_x">>))

DefaultPkg == Ok(Pkg(<<"pkgs.nodejs">>))

\* ------------------------------------------------------------------------
\* C1: get_nix_node_pkg returns pkgs.nodejs when engines.node is unset or
\* "*", and nodejs-N_x when the constraint is "N", "N.x" or begins with
\* ">=N" (N the whole integer after ">="), for N in {10, 12, 14, 16, 17}.
C1_AllowListedResolution ==
    (Called = "npm.get_nix_node_pkg") =>
        /\ ~IsSome(EnginesNode) => Returned = DefaultPkg
        /\ IsSome(EnginesNode) /\ EnginesNode.val = <<"*">> => Returned = DefaultPkg
        /\ \A n \in SupportedMajors :
              (/\ IsSome(EnginesNode)
               /\ \/ EnginesNode.val = n
                  \/ EnginesNode.val = n \o <<".", "x">>
                  \/ RangeFrom(EnginesNode.val, n))
              => Returned = NodePkg(n)

C1_Witness ==
    /\ Called = "npm.get_nix_node_pkg"
    /\ IsSome(EnginesNode)
    /\ EnginesNode.val = <<">", "=", "1", "4", ".", "1", "0", ".", "3", " ", "<", "1", "6">>
    /\ Returned = NodePkg(<<"1", "4">>)

\* ------------------------------------------------------------------------
\* C2: a constraint that matches "major[.x]" or ">=N" and whose integer
\* (written in ASCII digits, of any size) is not a supported major makes
\* get_nix_node_pkg return the error naming that integer, never pkgs.nodejs.
C2_UnsupportedIsError ==
    (/\ Called = "npm.get_nix_node_pkg"
     /\ IsSome(EnginesNode))
    => \A m \in {MajorRegex(EnginesNode.val), RangeRegex(EnginesNode.val)} :
          (/\ IsSome(m)
           /\ \A i \in 1..Len(m.val) : m.val[i] \in AsciiDigits
           /\ StripZeros(m.val) \notin SupportedMajors)
          => /\ IsErr(Returned)
             /\ Returned.err.subject = StripZeros(m.val)

\* ------------------------------------------------------------------------
\* pixi.toml is there and deserializes
PixiParsed == IsSome(DocOf(PixiTomlPath)) /\ IsSome(DocOf(PixiTomlPath).val.tasks)

PixiTasks == DocOf(PixiTomlPath).val.tasks.val

\* the tree with the values of pixi.toml's tasks replaced by one fixed value
PixiValuesErased ==
    LET Erase(o) == IF IsSome(o) THEN Some("task") ELSE None IN
    [app EXCEPT !.files[PixiTomlPath] =
        Toml([tasks |-> Some([build |-> Erase(PixiTasks.build),
                              start |-> Erase(PixiTasks.start)])])]

\* C3: for a parsed pixi.toml, get_build_plan returns an error and no plan
\* when tasks.start is absent, with or without tasks.build; otherwise a
\* plan with the phases setup and install, a build phase exactly when
\* tasks.build is present, and a start phase; the values of the tasks do
\* not change the result.
C3_PixiPlanGatedByTaskKeys ==
    (Called = "pixi.get_build_plan" /\ PixiParsed) =>
        /\ ~IsSome(PixiTasks.start) => IsErr(Returned)
        /\ IsSome(PixiTasks.start) =>
              /\ IsOk(Returned) /\ IsSome(Returned.val)
              /\ DOMAIN Returned.val.val.phases =
                    {"setup", "install"} \cup
                    (IF IsSome(PixiTasks.build) THEN {"build"} ELSE {})
              /\ IsSome(Returned.val.val.start_phase)
        /\ Returned = PixiGetBuildPlan(PixiValuesErased, env)

C3_Witness ==
    /\ Called = "pixi.get_build_plan"
    /\ PixiParsed
    /\ PixiTasks.build = Some("cargo build")
    /\ ~IsSome(PixiTasks.start)
    /\ IsErr(Returned)

\* ------------------------------------------------------------------------
\* the plan a get_build_plan call returned
Plan == Returned.val.val

\* C4: in a plan DenoProvider::get_build_plan returns, the setup phase's
\* archive override is NIXPACKS_ARCHIVE_LATEST_DENO when USE_DENO_2 is
\* truthy and absent otherwise, and no other phase has an archive override.
C4_ArchivePinFollowsFlag ==
    (Called = "deno.get_build_plan" /\ IsOk(Returned)) =>
        /\ IsSome(Returned.val)
        /\ "setup" \in DOMAIN Plan.phases
        /\ Plan.phases["setup"].nixpkgs_archive =
              (IF is_config_variable_truthy(env, "USE_DENO_2")
               THEN Some(NIXPACKS_ARCHIVE_LATEST_DENO)
               ELSE None)
        /\ \A n \in DOMAIN Plan.phases \ {"setup"} :
              Plan.phases[n].nixpkgs_archive = None

C4_Witness ==
    /\ Called = "deno.get_build_plan"
    /\ IsOk(Returned)
    /\ "NIXPACKS_USE_DENO_2" \in DOMAIN env
    /\ env["NIXPACKS_USE_DENO_2"] = "true"
    /\ "build" \in DOMAIN Plan.phases
    /\ Plan.phases["setup"].nixpkgs_archive = Some(NIXPACKS_ARCHIVE_LATEST_DENO)

\* ------------------------------------------------------------------------
SourceExts == {"ts", "tsx", "js", "jsx"}

InTree(p) == p \in DOMAIN app.files

\* some source file of the tree holds an import from https://deno.land/
HasDenoImport ==
    \E p \in DOMAIN app.files :
        /\ p.ext \in SourceExts
        /\ app.files[p].kind = "text"
        /\ \E i \in 1..Len(app.files[p].lines) : app.files[p].lines[i] = DenoImportLine

\* some source file of the tree cannot be read as text
HasUnreadableSource ==
    \E p \in DOMAIN app.files : p.ext \in SourceExts /\ app.files[p].kind # "text"

\* C5: DenoProvider::detect, when it returns a value, returns true exactly
\* when the tree holds deno.json, deno.jsonc or a source file importing
\* from https://deno.land/; it fails only when neither manifest is there
\* and a source file cannot be read; a tree holding only package.json is
\* not detected, a tree with such an import and no manifest is.
C5_DenoDetectCriteria ==
    (Called = "deno.detect") =>
        /\ IsOk(Returned) =>
              (Returned.val <=>
                  (InTree(DenoJsonPath) \/ InTree(DenoJsoncPath) \/ HasDenoImport))
        /\ IsErr(Returned) =>
              (~InTree(DenoJsonPath) /\ ~InTree(DenoJsoncPath) /\ HasUnreadableSource)
        /\ DOMAIN app.files = {PackageJsonPath} => Returned = Ok(FALSE)
        /\ (HasDenoImport /\ ~HasUnreadableSource) => Returned = Ok(TRUE)

C5_Witness ==
    /\ Called = "deno.detect"
    /\ ~InTree(DenoJsonPath) /\ ~InTree(DenoJsoncPath)
    /\ HasDenoImport
    /\ Returned = Ok(TRUE)

\* ------------------------------------------------------------------------
DetectOps == {"npm.detect", "pixi.detect", "deno.detect"}

PackageDocNow == DocOf(PackageJsonPath).val

DeclaresScript(k) == IsSome(PackageDocNow.scripts) /\ k \in DOMAIN PackageDocNow.scripts.val

\* C7: with package.json read, suggested_start_command is "npm run start"
\* when scripts.start is declared; else "node <main>" when main is declared
\* and that file is in the tree; else "node index.js" when index.js is in
\* the tree; else absent.
C7_StartCommandChain ==
    (Called = "npm.suggested_start_command" /\ PackageParsed) =>
        Returned =
            Ok(IF DeclaresScript("start") THEN Some("npm run start")
               ELSE IF IsSome(PackageDocNow.main) /\ InTree(PathOf(PackageDocNow.main.val))
               THEN Some("node " \o PackageDocNow.main.val)
               ELSE IF InTree(Path(<<>>, "index", "js")) THEN Some("node index.js")
               ELSE None)

C7_Witness ==
    /\ Called = "npm.suggested_start_command"
    /\ PackageParsed
    /\ ~DeclaresScript("start")
    /\ PackageDocNow.main = Some("lib/main.js")
    /\ InTree(Path(<<>>, "index", "js"))
    /\ Returned = Ok(Some("node index.js"))

\* ------------------------------------------------------------------------
DenoManifestPaths == {DenoJsonPath, DenoJsoncPath}

Parses(p) == InTree(p) /\ app.files[p].kind = "json"

\* tasks.start of a parsed manifest, None when it declares none
DeclaredStart(p) ==
    LET tasks == app.files[p].doc.tasks IN
    IF IsSome(tasks) /\ IsSome(tasks.val.start) THEN tasks.val.start ELSE None

Declares(p) == Parses(p) /\ IsSome(DeclaredStart(p))

\* the index files of the tree in walk order
IndexFiles ==
    LET IsIndex(p) == p.stem = "index" /\ p.ext \in SourceExts IN
    SelectSeq(app.order, IsIndex)

\* the start phase of the fallback: run the first index file, or nothing
FallbackStart ==
    IF IndexFiles # <<>>
    THEN Some([cmd |-> Some("deno run --allow-all "
                            \o JoinSlash(FileName(IndexFiles[1])))])
    ELSE None

\* C8 as stated: in a plan of the Deno provider the start command is the
\* tasks.start that deno.json or deno.jsonc declares, when one of them
\* does; else "deno run --allow-all <first index file>"; else there is no
\* start phase; the start phase is set at most once.
C8_StartFromEitherManifest ==
    (Called = "deno.get_build_plan" /\ IsOk(Returned)) =>
        /\ Plan.start_writes <= 1
        /\ IF \E p \in DenoManifestPaths : Declares(p)
           THEN \E p \in DenoManifestPaths :
                    /\ Declares(p)
                    /\ Plan.start_phase = Some([cmd |-> DeclaredStart(p)])
           ELSE Plan.start_phase = FallbackStart

\* the manifest get_start_cmd ends up with: deno.json when it parses,
\* deno.jsonc otherwise
ManifestRead == IF Parses(DenoJsonPath) THEN DenoJsonPath ELSE DenoJsoncPath

\* C8 amended: the tasks.start that counts is that of the manifest that is
\* read, deno.json when it exists and parses and deno.jsonc otherwise.
C8_StartFromManifestRead ==
    (Called = "deno.get_build_plan" /\ IsOk(Returned)) =>
        /\ Plan.start_writes <= 1
        /\ Plan.start_phase =
              (IF Declares(ManifestRead)
               THEN Some([cmd |-> DeclaredStart(ManifestRead)])
               ELSE FallbackStart)

C8_Witness ==
    /\ Called = "deno.get_build_plan"
    /\ IsOk(Returned)
    /\ Parses(DenoJsonPath) /\ ~Declares(DenoJsonPath)
    /\ Declares(DenoJsoncPath)
    /\ IndexFiles # <<>>
    /\ Plan.start_phase = FallbackStart

\* ------------------------------------------------------------------------
\* C9: a manifest that is there and cannot be parsed makes the operations
\* that read it fail with the error of that very manifest: package.json
\* for npm's pkgs, suggested_build_cmd and suggested_start_command,
\* pixi.toml for pixi's get_build_plan, deno.json for Deno's get_build_plan.
C9_MalformedManifestFails ==
    /\ (/\ Called \in {"npm.pkgs", "npm.suggested_build_cmd",
                       "npm.suggested_start_command"}
        /\ InTree(PackageJsonPath) /\ ~PackageParsed)
       => (IsErr(Returned) /\ Returned.err.subject = <<"package.json">>)
    /\ (Called = "pixi.get_build_plan" /\ InTree(PixiTomlPath) /\ ~PixiParsed)
       => (IsErr(Returned) /\ Returned.err.subject = <<"pixi.toml">>)
    /\ (Called = "deno.get_build_plan" /\ InTree(DenoJsonPath) /\ ~Parses(DenoJsonPath))
       => (IsErr(Returned) /\ Returned.err.subject = <<"deno.json">>)

\* ------------------------------------------------------------------------
\* C10: DenoProvider::detect asks for deno.json first, for deno.jsonc only
\* when deno.json is missing, and scans the sources only when both are
\* missing; with either file there it returns true whatever the sources hold.
C10_DetectShortCircuits ==
    (Called = "deno.detect") =>
        /\ reads = IF InTree(DenoJsonPath) THEN <<"includes_file deno.json">>
                   ELSE IF InTree(DenoJsoncPath)
                   THEN <<"includes_file deno.json", "includes_file deno.jsonc">>
                   ELSE <<"includes_file deno.json", "includes_file deno.jsonc",
                          "find_match **/*.{ts,tsx,js,jsx}">>
        /\ (InTree(DenoJsonPath) \/ InTree(DenoJsoncPath)) => Returned = Ok(TRUE)

C10_Witness ==
    /\ Called = "deno.detect"
    /\ ~InTree(DenoJsonPath) /\ InTree(DenoJsoncPath)
    /\ HasUnreadableSource
    /\ Returned = Ok(TRUE)
    /\ Len(reads) = 2

=============================================================================
